---- MODULE Spec2Model ----
(***************************************************************************)
(* Model of the Essayage virtual try-on application:                       *)
(*   src/services/geminiService.ts  data-URL codec, response classifier    *)
(*   src/lib/utils.ts               error message normalizer               *)
(*   src/components/Canvas.tsx      the Canvas and StartScreen components  *)
(*                                                                         *)
(* Strings.  A JavaScript string is modelled as a sequence of tokens.  A   *)
(* token is either a single character ("a", ":", ";", ",", " ", a double   *)
(* quote, a brace, a line feed) or a literal piece of text taken from the  *)
(* source as a whole ("data", "base64", "Unsupported MIME type", a message *)
(* template fragment, an enum value such as "SAFETY").  Every character    *)
(* that a modelled operation searches for (by split, match, trim,          *)
(* JSON.parse) occurs in the searched strings only as a single-character   *)
(* token, and the single-character tokens cannot spell a multi-character   *)
(* one, so a search over tokens finds what the search over characters      *)
(* finds.                                                                  *)
(***************************************************************************)
EXTENDS Integers, Sequences, FiniteSets, TLC

VARIABLES
    dataUrl,      \* dataUrlToParts: the argument
    parts,        \* dataUrlToParts: its outcome (pending / return / throw)
    reencoded,    \* the data URL rebuilt from parts (pending until rebuilt)
    response,     \* handleApiResponse: the argument
    apiResult,    \* handleApiResponse: its outcome (pending / return / throw)
    error,        \* getFriendlyErrorMessage: the raw error
    context,      \* getFriendlyErrorMessage: the context string
    friendly,     \* getFriendlyErrorMessage: its outcome (pending / return)
    userImageUrl,       \* StartScreen state: data URL of the chosen photo
    generatedModelUrl,  \* StartScreen state: the generated model image
    isGenerating,       \* StartScreen state: the in-progress indicator
    startError,         \* StartScreen state `error`: the message shown
    readers,            \* StartScreen: FileReaders that have not fired onload
    calls,              \* StartScreen: generateModelImage calls not settled
    attempts,           \* StartScreen: number of FileReaders created so far
    lastSettled,        \* StartScreen: the call that settled last, its outcome
    modelImageUrl,      \* generateVirtualTryOnImage: the first argument
    garmentImage,       \* generateVirtualTryOnImage: the second argument
    modelImagePart,     \* generateVirtualTryOnImage: the decoded model image
    garmentImagePart,   \* generateVirtualTryOnImage: the encoded garment
    requests,           \* requests issued to ai.models.generateContent
    tryOnResult,        \* generateVirtualTryOnImage: how its promise settled
    tryOnPc,            \* generateVirtualTryOnImage: the line about to run
    imageToDisplay,     \* Canvas: croppedImageUrl ?? displayImageUrl
    shareSupport,       \* the browser's navigator.share / navigator.canShare
    downloads,          \* Canvas: images of handleDownload not yet loaded
    shares,             \* Canvas: handleShare calls not yet over
    handed,             \* artifacts handed to the user (saved or shared)
    exports,            \* Canvas: number of download and share clicks so far
    isLoading,              \* Canvas prop
    poseInstructions,       \* Canvas prop: the list of poses
    currentPoseInstruction, \* Canvas prop: the selected pose
    customPoseInput,        \* Canvas state: the text typed in the pose menu
    isPoseMenuOpen,         \* Canvas state
    poseCall,           \* the last call of onSelectPose: by whom, from which
                        \* selection, with which argument
    imageElement,       \* getCroppedImgDataUrl: the argument image
    cropRegion,         \* getCroppedImgDataUrl: the argument crop
    croppedDataUrl,     \* getCroppedImgDataUrl: its outcome (pending / return)
    displayImageUrl,    \* Canvas prop: the base image
    isCropping,         \* Canvas state
    crop,               \* Canvas state: the region drawn (undefined: None)
    croppedImageUrl,    \* Canvas state: the confirmed crop
    imgRef              \* Canvas: the <img> of the crop view, when rendered

urlVars == <<dataUrl, parts, reencoded>>
apiVars == <<response, apiResult>>
errVars == <<error, context, friendly>>
svcVars == <<urlVars, apiVars, errVars>>
startVars == <<userImageUrl, generatedModelUrl, isGenerating, startError,
               readers, calls, attempts, lastSettled>>
tryOnVars == <<modelImageUrl, garmentImage, modelImagePart, garmentImagePart,
               requests, tryOnResult, tryOnPc>>
exportVars == <<imageToDisplay, shareSupport, downloads, shares, handed,
                exports>>
poseVars == <<poseInstructions, currentPoseInstruction,
              customPoseInput, isPoseMenuOpen, poseCall>>
rasterVars == <<imageElement, cropRegion, croppedDataUrl>>
cropVars == <<displayImageUrl, isCropping, crop, croppedImageUrl, imgRef>>
canvasVars == <<isLoading, poseVars, cropVars>>
uiVars == <<startVars, tryOnVars, exportVars, rasterVars, canvasVars>>
notStartVars == <<svcVars, tryOnVars, exportVars, rasterVars, canvasVars>>
notTryOnVars == <<svcVars, startVars, exportVars, rasterVars, canvasVars>>
notExportVars == <<svcVars, startVars, tryOnVars, rasterVars, canvasVars>>
notRasterVars == <<svcVars, startVars, tryOnVars, exportVars, canvasVars>>
notCanvasVars == <<svcVars, startVars, tryOnVars, exportVars, rasterVars>>
notPoseVars == <<notCanvasVars, cropVars>>
vars == <<dataUrl, parts, reencoded, response, apiResult,
          error, context, friendly, startVars, tryOnVars, exportVars,
          rasterVars, canvasVars>>

----------------------------------------------------------------------------
(* Bounds *)

MaxUrlLen == 4       \* longest arbitrary input string given to dataUrlToParts
MaxFieldLen == 2     \* longest <mime> and <payload> of a well-formed data URL
MaxCandidates == 2   \* most candidates of a response
MaxParts == 2        \* most content parts of a response, over all candidates
MaxMimeLen == 2      \* longest text after "Unsupported MIME type: "

----------------------------------------------------------------------------
(* Outcomes of a call *)

Pending == [kind |-> "pending"]
Return(v) == [kind |-> "return", value |-> v]
Throw(msg) == [kind |-> "throw", message |-> msg]

\* An optional value (undefined, or a value): a sequence of length 0 or 1.
None == <<>>
Some(v) == <<v>>

\* JavaScript truthiness of an optional string: undefined and "" are falsy.
Truthy(opt) == opt # None /\ opt[1] # <<>>

----------------------------------------------------------------------------
(* String helpers (JavaScript built-ins, over token sequences) *)

\* All strings over alphabet A of length at most n.
StringsUpTo(A, n) == UNION {[1..k -> A] : k \in 0..n}

\* Index of the first occurrence of token c in s at or after position from,
\* 0 when there is none.
RECURSIVE IndexFrom(_, _, _)
IndexFrom(s, c, from) ==
    IF from > Len(s) THEN 0
    ELSE IF s[from] = c THEN from
    ELSE IndexFrom(s, c, from + 1)

\* String.prototype.split with a one-character separator: every occurrence
\* of the separator cuts; the result always has at least one segment.
RECURSIVE SplitChar(_, _)
SplitChar(s, sep) ==
    LET i == IndexFrom(s, sep, 1) IN
    IF i = 0 THEN <<s>>
    ELSE <<SubSeq(s, 1, i - 1)>> \o SplitChar(SubSeq(s, i + 1, Len(s)), sep)

\* Result of a failed RegExp match.
NoMatch == [matched |-> FALSE]

\* header.match(/:(.*?);/): the leftmost ":" from which a ";" can be reached
\* without crossing a line terminator ("." does not match one); the lazy
\* group is the text up to the first such ";".
RECURSIVE MimeMatchFrom(_, _)
MimeMatchFrom(header, from) ==
    LET i == IndexFrom(header, ":", from) IN
    IF i = 0 THEN NoMatch
    ELSE LET j  == IndexFrom(header, ";", i + 1)
             nl == IndexFrom(header, "\n", i + 1)
         IN IF j # 0 /\ (nl = 0 \/ nl > j)
            THEN [matched |-> TRUE, group |-> SubSeq(header, i + 1, j - 1)]
            ELSE MimeMatchFrom(header, i + 1)

\* A plausible slip: the greedy group /:(.*);/ runs to the last ";".
RECURSIVE LastIndexFrom(_, _, _)
LastIndexFrom(s, c, from) ==
    LET i == IndexFrom(s, c, from) IN
    IF i = 0 THEN 0
    ELSE LET k == LastIndexFrom(s, c, i + 1) IN IF k = 0 THEN i ELSE k

MimeMatch_Greedy(header) ==
    LET i == IndexFrom(header, ":", 1)
        j == IF i = 0 THEN 0 ELSE LastIndexFrom(header, ";", i + 1)
    IN IF j = 0 THEN NoMatch
       ELSE [matched |-> TRUE, group |-> SubSeq(header, i + 1, j - 1)]

MimeMatch(header) == MimeMatchFrom(header, 1)

----------------------------------------------------------------------------
(* src/services/geminiService.ts *)

InvalidDataUrl == <<"Invalid data URL">>
CouldNotParseMime == <<"Could not parse MIME type from data URL">>

\* `data:${mimeType};base64,${data}`
DataUrlOf(mimeType, data) ==
    <<"data", ":">> \o mimeType \o <<";", "base64", ",">> \o data

\* A plausible slip: the check of an empty captured type is left out.
dataUrlToParts_NoEmptyCheck(url) ==
    LET arr == SplitChar(url, ",") IN
    IF Len(arr) < 2 THEN Throw(InvalidDataUrl)
    ELSE LET mimeMatch == MimeMatch(arr[1]) IN
         IF ~mimeMatch.matched
         THEN Throw(CouldNotParseMime)
         ELSE Return([mimeType |-> mimeMatch.group, data |-> arr[2]])

dataUrlToParts(url) ==
    LET arr == SplitChar(url, ",") IN
    IF Len(arr) < 2 THEN Throw(InvalidDataUrl)
    ELSE LET mimeMatch == MimeMatch(arr[1]) IN
         IF ~mimeMatch.matched \/ mimeMatch.group = <<>>
         THEN Throw(CouldNotParseMime)
         ELSE Return([mimeType |-> mimeMatch.group, data |-> arr[2]])

\* String.prototype.trim: leading and trailing white space removed.
WhiteSpace == {" ", "\n", "\t"}

RECURSIVE TrimStart(_)
TrimStart(s) ==
    IF s # <<>> /\ s[1] \in WhiteSpace THEN TrimStart(Tail(s)) ELSE s

RECURSIVE TrimEnd(_)
TrimEnd(s) ==
    IF s # <<>> /\ s[Len(s)] \in WhiteSpace
    THEN TrimEnd(SubSeq(s, 1, Len(s) - 1)) ELSE s

\* A plausible slip: only the leading white space is removed.
Trim_StartOnly(s) == TrimStart(s)

Trim(s) == TrimEnd(TrimStart(s))

\* The message templates of handleApiResponse.
BlockedPrefix == "La requête a été bloquée. Raison : "
AbnormalPrefix ==
    "La génération d'image s'est arrêtée de manière inattendue. Raison : "
AbnormalSuffix == ". Cela est souvent lié aux paramètres de sécurité."
NoImagePrefix == "Le modèle IA n'a pas retourné d'image. "
NoImageTextPrefix == "Le modèle a répondu avec le texte : "
NoImageGeneric ==
    "Cela peut se produire à cause des filtres de sécurité ou si la requête est trop complexe. Veuillez essayer une autre image."

\* Lines 34-36: the error of a blocked request (blockReasonMessage || '').
BlockedError(promptFeedback) ==
    Throw(<<BlockedPrefix>> \o promptFeedback.blockReason[1] \o <<". ">>
          \o (IF Truthy(promptFeedback.blockReasonMessage)
              THEN promptFeedback.blockReasonMessage[1] ELSE <<>>))

\* response.promptFeedback?.blockReason is truthy.
HasBlockReason(resp) ==
    resp.promptFeedback # None /\ Truthy(resp.promptFeedback[1].blockReason)

\* A plausible slip: findLast instead of find.
RECURSIVE FindLastImagePart(_)
FindLastImagePart(ps) ==
    IF ps = <<>> THEN None
    ELSE IF ps[Len(ps)].inlineData # None THEN Some(ps[Len(ps)])
    ELSE FindLastImagePart(SubSeq(ps, 1, Len(ps) - 1))

\* candidate.content?.parts?.find(part => part.inlineData), ps being the
\* parts (empty when content or parts is undefined).
RECURSIVE FindImagePart(_)
FindImagePart(ps) ==
    IF ps = <<>> THEN None
    ELSE IF Head(ps).inlineData # None THEN Some(Head(ps))
    ELSE FindImagePart(Tail(ps))

PartsOf(candidate) ==
    IF candidate.parts = None THEN <<>> ELSE candidate.parts[1]

\* A plausible slip: the candidates are scanned from the last one.
RECURSIVE FirstImagePart_Reversed(_)
FirstImagePart_Reversed(cands) ==
    IF cands = <<>> THEN None
    ELSE LET imagePart == FindImagePart(PartsOf(cands[Len(cands)])) IN
         IF imagePart # None THEN imagePart
         ELSE FirstImagePart_Reversed(SubSeq(cands, 1, Len(cands) - 1))

\* Lines 40-46: the loop over the candidates, returning the image part of
\* the first candidate that has one.
RECURSIVE FirstImagePart(_)
FirstImagePart(cands) ==
    IF cands = <<>> THEN None
    ELSE LET imagePart == FindImagePart(PartsOf(Head(cands))) IN
         IF imagePart # None THEN imagePart
         ELSE FirstImagePart(Tail(cands))

\* response.candidates ?? []
CandidatesOf(resp) ==
    IF resp.candidates = None THEN <<>> ELSE resp.candidates[1]

\* A plausible slip: the finish reason of the last candidate is read.
FirstFinishReason_Last(resp) ==
    IF CandidatesOf(resp) = <<>> THEN None
    ELSE CandidatesOf(resp)[Len(CandidatesOf(resp))].finishReason

\* response.candidates?.[0]?.finishReason
FirstFinishReason(resp) ==
    IF CandidatesOf(resp) = <<>> THEN None
    ELSE CandidatesOf(resp)[1].finishReason

AbnormalStopError(finishReason) ==
    Throw(<<AbnormalPrefix>> \o finishReason \o <<AbnormalSuffix>>)

\* A plausible slip: the message is returned instead of thrown.
NoImageError_Returned(text) ==
    Return(<<NoImagePrefix, NoImageGeneric>>)

\* Lines 53-55: the error of a response without an image.
NoImageError(text) ==
    LET textFeedback == IF text = None THEN None ELSE Some(Trim(text[1])) IN
    Throw(<<NoImagePrefix>>
          \o (IF Truthy(textFeedback)
              THEN <<NoImageTextPrefix, "\"">> \o textFeedback[1] \o <<"\"">>
              ELSE <<NoImageGeneric>>))

\* A plausible slip: the image is looked for before the block reason.
handleApiResponse_ImageFirst(resp) ==
    LET imagePart == FirstImagePart(CandidatesOf(resp)) IN
    IF imagePart # None
    THEN Return(DataUrlOf(imagePart[1].inlineData[1].mimeType,
                          imagePart[1].inlineData[1].data))
    ELSE IF HasBlockReason(resp) THEN BlockedError(resp.promptFeedback[1])
    ELSE LET finishReason == FirstFinishReason(resp) IN
         IF Truthy(finishReason) /\ finishReason[1] # <<"STOP">>
         THEN AbnormalStopError(finishReason[1])
         ELSE NoImageError(resp.text)

handleApiResponse(resp) ==
    IF HasBlockReason(resp) THEN BlockedError(resp.promptFeedback[1])
    ELSE LET imagePart == FirstImagePart(CandidatesOf(resp)) IN
         IF imagePart # None
         THEN Return(DataUrlOf(imagePart[1].inlineData[1].mimeType,
                               imagePart[1].inlineData[1].data))
         ELSE LET finishReason == FirstFinishReason(resp) IN
              IF Truthy(finishReason) /\ finishReason[1] # <<"STOP">>
              THEN AbnormalStopError(finishReason[1])
              ELSE NoImageError(resp.text)

----------------------------------------------------------------------------
(* src/lib/utils.ts *)

\* String.prototype.includes for a literal that is one token.
Includes(s, tok) == IndexFrom(s, tok, 1) # 0

\* Position of the first occurrence of the two-character separator sep in
\* s at or after position from, 0 when there is none.
RECURSIVE IndexOfPair(_, _, _)
IndexOfPair(s, sep, from) ==
    IF from + 1 > Len(s) THEN 0
    ELSE IF s[from] = sep[1] /\ s[from + 1] = sep[2] THEN from
    ELSE IndexOfPair(s, sep, from + 1)

\* String.prototype.split with a two-character separator.
RECURSIVE SplitPair(_, _)
SplitPair(s, sep) ==
    LET i == IndexOfPair(s, sep, 1) IN
    IF i = 0 THEN <<s>>
    ELSE <<SubSeq(s, 1, i - 1)>> \o SplitPair(SubSeq(s, i + 2, Len(s)), sep)

(* JSON.parse, for the JSON texts made of objects, strings without escape   *)
(* sequences, one-digit numbers and the literals null, true and false, with *)
(* insignificant white space.  A parse yields [ok |-> TRUE, value, rest] or *)
(* [ok |-> FALSE] (a SyntaxError).  Values: [t |-> "string", v |-> text],   *)
(* [t |-> "object", members |-> <<key, value>> pairs in source order],      *)
(* [t |-> "number", digit |-> d], [t |-> "literal", name |-> "null" | ...].  *)
JsonWhiteSpace == {" ", "\n", "\t", "\r"}
JsonLiterals == {"null", "true", "false"}
JsonDigits == {"0", "1"}
ParseFail == [ok |-> FALSE]

RECURSIVE SkipWs(_)
SkipWs(s) ==
    IF s # <<>> /\ s[1] \in JsonWhiteSpace THEN SkipWs(Tail(s)) ELSE s

\* s starts with a double quote: the string runs to the next double quote;
\* a control character or a backslash inside it is rejected.
ParseString(s) ==
    LET j == IndexFrom(s, "\"", 2) IN
    IF j = 0 THEN ParseFail
    ELSE IF \E k \in 2..(j - 1) : s[k] \in {"\n", "\t", "\r", "\\"}
    THEN ParseFail
    ELSE [ok |-> TRUE, value |-> [t |-> "string", v |-> SubSeq(s, 2, j - 1)],
          rest |-> SubSeq(s, j + 1, Len(s))]

RECURSIVE ParseValue(_)
RECURSIVE ParseMembers(_, _)

\* The members of an object after its "{" (and after a ","), acc being the
\* members read so far.
ParseMembers(s, acc) ==
    LET s1 == SkipWs(s) IN
    IF s1 = <<>> \/ s1[1] # "\"" THEN ParseFail
    ELSE LET key == ParseString(s1) IN
         IF ~key.ok THEN ParseFail
         ELSE LET s2 == SkipWs(key.rest) IN
              IF s2 = <<>> \/ s2[1] # ":" THEN ParseFail
              ELSE LET val == ParseValue(Tail(s2)) IN
                   IF ~val.ok THEN ParseFail
                   ELSE LET s3 == SkipWs(val.rest)
                            members == Append(acc, <<key.value.v, val.value>>)
                        IN IF s3 = <<>> THEN ParseFail
                           ELSE IF s3[1] = "," THEN ParseMembers(Tail(s3), members)
                           ELSE IF s3[1] = "}"
                           THEN [ok |-> TRUE,
                                 value |-> [t |-> "object", members |-> members],
                                 rest |-> Tail(s3)]
                           ELSE ParseFail

ParseValue(s) ==
    LET s1 == SkipWs(s) IN
    IF s1 = <<>> THEN ParseFail
    ELSE IF s1[1] = "\"" THEN ParseString(s1)
    ELSE IF s1[1] \in JsonLiterals
    THEN [ok |-> TRUE, value |-> [t |-> "literal", name |-> s1[1]], rest |-> Tail(s1)]
    ELSE IF s1[1] \in JsonDigits
    THEN [ok |-> TRUE, value |-> [t |-> "number", digit |-> s1[1]], rest |-> Tail(s1)]
    ELSE IF s1[1] = "{"
    THEN LET s2 == SkipWs(Tail(s1)) IN
         IF s2 # <<>> /\ s2[1] = "}"
         THEN [ok |-> TRUE, value |-> [t |-> "object", members |-> <<>>],
               rest |-> Tail(s2)]
         ELSE ParseMembers(Tail(s1), <<>>)
    ELSE ParseFail

\* JSON.parse(text): the whole text must be one value.
JSONParse(text) ==
    LET r == ParseValue(text) IN
    IF r.ok /\ SkipWs(r.rest) = <<>> THEN [ok |-> TRUE, value |-> r.value]
    ELSE ParseFail

\* The value undefined, as a JSON-shaped value.
JsUndefined == [t |-> "undefined"]

\* value?.[key]: undefined for undefined and null, and for a primitive or an
\* object without that property; the last of several equal keys wins.
RECURSIVE LookUp(_, _)
LookUp(members, key) ==
    IF members = <<>> THEN JsUndefined
    ELSE IF members[Len(members)][1] = key THEN members[Len(members)][2]
    ELSE LookUp(SubSeq(members, 1, Len(members) - 1), key)

GetProperty(value, key) ==
    IF value.t = "object" THEN LookUp(value.members, key) ELSE JsUndefined

MimeMarker == "Unsupported MIME type"
UnknownErrorMessage == <<"Une erreur inconnue est survenue.">>
UnsupportedLiteral == <<"unsupported">>
FileTypePrefix == "Le type de fichier '"
FileTypeSuffix ==
    "' n'est pas pris en charge. Veuillez utiliser un format comme PNG, JPEG, ou WEBP."
GenericUnsupported ==
    <<"Format de fichier non pris en charge. Veuillez télécharger une image au format PNG, JPEG, ou WEBP.">>

\* String(error) for the values that are neither an Error nor a string.
StringOf(err) ==
    IF err.type = "object" THEN <<"[object Object]">>
    ELSE IF err.type = "event" THEN <<"[object ProgressEvent]">>
    ELSE <<err.text>>

\* JavaScript truthiness of a raw error value.
TruthyError(err) ==
    err.type \notin {"undefined", "null"} /\ (err.type \in {"object", "event"} \/ err.truthy)

\* Lines 13-20: the stringified raw error.
RawMessageOf(err) ==
    IF err.type = "Error" THEN err.message
    ELSE IF err.type = "string" THEN err.value
    ELSE IF TruthyError(err) THEN StringOf(err)
    ELSE UnknownErrorMessage

\* A plausible slip: the first segment of the split is taken.
NestedMimeType_First(nestedMessage) ==
    LET seg == SplitPair(nestedMessage, <<":", " ">>) IN
    IF seg[1] # <<>> THEN seg[1] ELSE UnsupportedLiteral

\* Line 30: nestedMessage.split(': ')[1] || 'unsupported'
NestedMimeType(nestedMessage) ==
    LET seg == SplitPair(nestedMessage, <<":", " ">>) IN
    IF Len(seg) >= 2 /\ seg[2] # <<>> THEN seg[2] ELSE UnsupportedLiteral

\* A plausible change: a message that is not JSON is searched for the type
\* too.
UnsupportedMimeMessage_ExtractPlain(rawMessage) ==
    LET errorJson == JSONParse(rawMessage)
        nestedMessage ==
            IF errorJson.ok
            THEN GetProperty(GetProperty(errorJson.value, <<"error">>), <<"message">>)
            ELSE [t |-> "string", v |-> rawMessage]
    IN IF nestedMessage.t = "string" /\ Includes(nestedMessage.v, MimeMarker)
       THEN <<FileTypePrefix>> \o NestedMimeType(nestedMessage.v)
            \o <<FileTypeSuffix>>
       ELSE GenericUnsupported

\* Lines 24-37: the message for a raw message that contains the marker.
UnsupportedMimeMessage(rawMessage) ==
    LET errorJson == JSONParse(rawMessage)
        nestedMessage ==
            IF errorJson.ok
            THEN GetProperty(GetProperty(errorJson.value, <<"error">>), <<"message">>)
            ELSE JsUndefined
    IN IF /\ errorJson.ok
          /\ nestedMessage.t = "string"
          /\ Includes(nestedMessage.v, MimeMarker)
       THEN <<FileTypePrefix>> \o NestedMimeType(nestedMessage.v)
            \o <<FileTypeSuffix>>
       ELSE GenericUnsupported

\* A plausible slip: without a usable nested message the generic return is
\* missing and the call falls through to the contextual message.
getFriendlyErrorMessage_FallThrough(err, ctx) ==
    LET rawMessage == RawMessageOf(err) IN
    IF /\ Includes(rawMessage, MimeMarker)
       /\ UnsupportedMimeMessage(rawMessage) # GenericUnsupported
    THEN UnsupportedMimeMessage(rawMessage)
    ELSE ctx \o <<". ">> \o rawMessage

getFriendlyErrorMessage(err, ctx) ==
    LET rawMessage == RawMessageOf(err) IN
    IF Includes(rawMessage, MimeMarker)
    THEN UnsupportedMimeMessage(rawMessage)
    ELSE ctx \o <<". ">> \o rawMessage

----------------------------------------------------------------------------
(* Specification SpecUrl: the data-URL codec *)

ApiIdle == response = None /\ apiResult = Pending
ErrIdle == error = None /\ context = <<>> /\ friendly = Pending
StartIdle ==
    /\ userImageUrl = None /\ generatedModelUrl = None
    /\ isGenerating = FALSE /\ startError = None
    /\ readers = {} /\ calls = {} /\ attempts = 0 /\ lastSettled = None
TryOnIdle ==
    /\ modelImageUrl = <<>> /\ garmentImage = None
    /\ modelImagePart = None /\ garmentImagePart = None
    /\ requests = <<>> /\ tryOnResult = Pending /\ tryOnPc = "idle"
ExportIdle ==
    /\ imageToDisplay = None /\ shareSupport = "none"
    /\ downloads = {} /\ shares = {} /\ handed = {} /\ exports = 0
PoseIdle ==
    /\ poseInstructions = <<>>
    /\ currentPoseInstruction = <<>> /\ customPoseInput = <<>>
    /\ isPoseMenuOpen = FALSE /\ poseCall = None
RasterIdle == imageElement = None /\ cropRegion = None /\ croppedDataUrl = Pending
CropIdle ==
    /\ displayImageUrl = None /\ isCropping = FALSE /\ crop = None
    /\ croppedImageUrl = None /\ imgRef = None
CanvasIdle == isLoading = FALSE /\ PoseIdle /\ CropIdle
UiIdle == StartIdle /\ TryOnIdle /\ ExportIdle /\ RasterIdle /\ CanvasIdle

UrlAlphabet == {"a", ":", ";", ",", "\n"}

\* Well-formed data URLs data:<mime>;base64,<payload>.
FormedDataUrls ==
    {DataUrlOf(m, p) : m \in StringsUpTo(UrlAlphabet, MaxFieldLen),
                       p \in StringsUpTo(UrlAlphabet, MaxFieldLen)}

UrlInputs == StringsUpTo(UrlAlphabet, MaxUrlLen) \cup FormedDataUrls

InitUrl ==
    /\ dataUrl \in UrlInputs
    /\ parts = Pending
    /\ reencoded = Pending
    /\ ApiIdle
    /\ ErrIdle
    /\ UiIdle

DecodeDataUrl ==
    /\ parts = Pending
    /\ parts' = dataUrlToParts(dataUrl)
    /\ UNCHANGED <<dataUrl, reencoded, apiVars, errVars, uiVars>>

EncodeDataUrl ==
    /\ parts.kind = "return"
    /\ reencoded = Pending
    /\ reencoded' = Return(DataUrlOf(parts.value.mimeType, parts.value.data))
    /\ UNCHANGED <<dataUrl, parts, apiVars, errVars, uiVars>>

NextUrl == DecodeDataUrl \/ EncodeDataUrl

SpecUrl == InitUrl /\ [][NextUrl]_vars

----------------------------------------------------------------------------
(* Claims about the data-URL codec (checked under SpecUrl) *)

Has(s, c) == IndexFrom(s, c, 1) # 0

\* The text of s before its first occurrence of c (all of s when c is absent).
Before(s, c) ==
    LET i == IndexFrom(s, c, 1) IN IF i = 0 THEN s ELSE SubSeq(s, 1, i - 1)

\* The input has the form data:<mime>;base64,<payload>.  The token "base64"
\* occurs in no mime and no payload, so the form determines both.
IsFormed(url) ==
    LET k == IndexFrom(url, "base64", 1) IN
    /\ k >= 4 /\ k < Len(url)
    /\ url[1] = "data" /\ url[2] = ":"
    /\ url[k - 1] = ";" /\ url[k + 1] = ","

MimeOf(url) == SubSeq(url, 3, IndexFrom(url, "base64", 1) - 2)
PayloadOf(url) == SubSeq(url, IndexFrom(url, "base64", 1) + 2, Len(url))

\* C6 as stated: for EVERY data URL data:<mime>;base64,<payload> the decode
\* yields {mimeType: mime, data: payload} (the whole header text between ":"
\* and ";base64", the whole text after the first comma) and re-encoding
\* gives the data URL back.
C6_RoundTripAll ==
    (IsFormed(dataUrl) /\ parts # Pending) =>
        /\ parts = Return([mimeType |-> MimeOf(dataUrl),
                           data |-> PayloadOf(dataUrl)])
        /\ reencoded # Pending => reencoded = Return(dataUrl)

\* C6 amended: the decode cuts at every comma and takes the segment between
\* the first and the second one as the payload, and takes the header text
\* between the first ":" and the first ";" after it as the mime.  For a data
\* URL whose mime holds no comma and has a non-empty, single-line text
\* before its first ";", the decode yields that text and the payload up to
\* its first comma; when moreover the mime holds no ";" and the payload no
\* comma, it yields {mime, payload} and re-encoding gives the data URL back.
C6_RoundTrip ==
    LET m == MimeOf(dataUrl)
        p == PayloadOf(dataUrl)
    IN (/\ IsFormed(dataUrl)
        /\ parts # Pending
        /\ ~Has(m, ",")
        /\ Before(m, ";") # <<>>
        /\ ~Has(Before(m, ";"), "\n")) =>
           /\ parts = Return([mimeType |-> Before(m, ";"),
                              data |-> Before(p, ",")])
           /\ (~Has(m, ";") /\ ~Has(p, ",")) =>
                  /\ parts = Return([mimeType |-> m, data |-> p])
                  /\ reencoded # Pending => reencoded = Return(dataUrl)

\* A data URL with a two-character mime and a non-empty payload has been
\* decoded and re-encoded to itself.
C6_Witness ==
    /\ dataUrl = DataUrlOf(<<"a", ":">>, <<";", "a">>)
    /\ parts = Return([mimeType |-> <<"a", ":">>, data |-> <<";", "a">>])
    /\ reencoded = Return(dataUrl)

\* The header contains a ":<type>;" pattern with a non-empty type.
HasMimePattern(header) ==
    \E i \in 1..Len(header), j \in 1..Len(header) :
        header[i] = ":" /\ header[j] = ";" /\ j > i + 1

\* C7: the decode fails for every input without a comma, fails for every
\* input whose header (the text before the first comma) holds no ":<type>;"
\* pattern with a non-empty type, and never returns an empty mimeType.
C7_MalformedRejected ==
    parts # Pending =>
        /\ ~Has(dataUrl, ",") => parts = Throw(InvalidDataUrl)
        /\ (Has(dataUrl, ",") /\ ~HasMimePattern(Before(dataUrl, ","))) =>
               parts = Throw(CouldNotParseMime)
        /\ parts.kind = "return" => parts.value.mimeType # <<>>

\* An input with a comma whose header has ":" directly followed by ";" (an
\* empty type) was rejected.
C7_Witness ==
    /\ dataUrl = <<":", ";", ",", "a">>
    /\ parts = Throw(CouldNotParseMime)

----------------------------------------------------------------------------
(* Specification SpecApi: the response classifier *)

UrlIdle == dataUrl = <<>> /\ parts = Pending /\ reencoded = Pending

\* A content part: a text part, or one of two inline images.
PartKinds ==
    { [inlineData |-> None],
      [inlineData |-> Some([mimeType |-> <<"image/png">>, data |-> <<"AAAA">>])],
      [inlineData |-> Some([mimeType |-> <<"image/jpeg">>, data |-> <<"BBBB">>])] }

FinishReasons == {None, Some(<<"STOP">>), Some(<<"SAFETY">>)}

\* The candidates with exactly k parts (content or parts may be undefined
\* when there is none).
CandidatesWith(k) ==
    {[parts |-> Some(ps), finishReason |-> f] :
        ps \in [1..k -> PartKinds], f \in FinishReasons}
    \cup (IF k = 0 THEN {[parts |-> None, finishReason |-> f] :
                             f \in FinishReasons}
          ELSE {})

\* The sequences of n candidates with at most budget parts in all.
RECURSIVE CandidateSeqs(_, _)
CandidateSeqs(n, budget) ==
    IF n = 0 THEN {<<>>}
    ELSE UNION {{<<c>> \o rest : c \in CandidatesWith(k),
                                 rest \in CandidateSeqs(n - 1, budget - k)} :
                k \in 0..budget}

PromptFeedbacks ==
    { None,
      Some([blockReason |-> None, blockReasonMessage |-> None]),
      Some([blockReason |-> Some(<<"SAFETY">>), blockReasonMessage |-> None]),
      Some([blockReason |-> Some(<<"OTHER">>),
            blockReasonMessage |-> Some(<<"detail">>)]) }

Texts ==
    { None, Some(<<>>), Some(<<" ", "\n">>), Some(<<"sorry">>),
      Some(<<" ", "so", " ", "rry", "\n">>) }

\* The responses with at most maxCandidates candidates and maxParts parts.
Responses(maxCandidates, maxParts) ==
    [ promptFeedback : PromptFeedbacks,
      candidates : {None} \cup
          {Some(cs) : cs \in UNION {CandidateSeqs(n, maxParts) :
                                      n \in 0..maxCandidates}},
      text : Texts ]

InitApi ==
    /\ response \in {Some(r) : r \in Responses(MaxCandidates, MaxParts)}
    /\ apiResult = Pending
    /\ UrlIdle
    /\ ErrIdle
    /\ UiIdle

HandleApiResponse ==
    /\ apiResult = Pending
    /\ apiResult' = handleApiResponse(response[1])
    /\ UNCHANGED <<response, urlVars, errVars, uiVars>>

NextApi == HandleApiResponse

SpecApi == InitApi /\ [][NextApi]_vars

----------------------------------------------------------------------------
(* Claims about the response classifier (checked under SpecApi) *)

\* The block reason the response carries, None when it carries none.
BlockReasonOf(resp) ==
    IF resp.promptFeedback = None THEN None
    ELSE resp.promptFeedback[1].blockReason

\* Part j of candidate i exists and is an inline image part.
ImageAt(resp, i, j) ==
    /\ resp.candidates # None
    /\ i \in 1..Len(resp.candidates[1])
    /\ resp.candidates[1][i].parts # None
    /\ j \in 1..Len(resp.candidates[1][i].parts[1])
    /\ resp.candidates[1][i].parts[1][j].inlineData # None

Positions == (1..(MaxCandidates + 1)) \X (1..(MaxParts + 1))

HasImage(resp) == \E pos \in Positions : ImageAt(resp, pos[1], pos[2])

InlineDataAt(resp, pos) ==
    resp.candidates[1][pos[1]].parts[1][pos[2]].inlineData[1]

\* The finish reason of the first candidate, None when there is no first
\* candidate or it has none.
FinishReasonOfFirst(resp) ==
    IF resp.candidates = None \/ resp.candidates[1] = <<>> THEN None
    ELSE resp.candidates[1][1].finishReason

IsSuccess(r) == r.kind = "return"
IsBlocked(r) == r.kind = "throw" /\ r.message[1] = BlockedPrefix
IsAbnormalStop(r) == r.kind = "throw" /\ r.message[1] = AbnormalPrefix
IsNoImageReturned(r) == r.kind = "throw" /\ r.message[1] = NoImagePrefix

\* C1: a response whose prompt feedback carries a block reason fails with
\* the "blocked" error naming that reason and never returns a data URL,
\* whatever its candidates hold.
C1_BlockedPrecedence ==
    (apiResult # Pending /\ BlockReasonOf(response[1]) # None) =>
        LET pf == response[1].promptFeedback[1] IN
        /\ apiResult.kind = "throw"
        /\ apiResult.message =
              <<BlockedPrefix>> \o pf.blockReason[1] \o <<". ">>
              \o (IF pf.blockReasonMessage = None THEN <<>>
                  ELSE pf.blockReasonMessage[1])

\* A response with a block reason and an inline image part was classified
\* as blocked.
C1_Witness ==
    /\ apiResult # Pending
    /\ BlockReasonOf(response[1]) # None
    /\ HasImage(response[1])
    /\ IsBlocked(apiResult)

\* C2: a response without a block reason that holds an inline image part
\* returns data:<mimeType>;base64,<data> of the first such part in candidate
\* order and, within a candidate, part order.
C2_FirstImage ==
    (apiResult # Pending /\ BlockReasonOf(response[1]) = None
                         /\ HasImage(response[1])) =>
        \E first \in Positions :
            /\ ImageAt(response[1], first[1], first[2])
            /\ \A pos \in Positions :
                   ImageAt(response[1], pos[1], pos[2]) =>
                       \/ first[1] < pos[1]
                       \/ first[1] = pos[1] /\ first[2] <= pos[2]
            /\ apiResult =
                  Return(<<"data", ":">>
                         \o InlineDataAt(response[1], first).mimeType
                         \o <<";", "base64", ",">>
                         \o InlineDataAt(response[1], first).data)

\* A response holding two different images was classified as a success.
C2_Witness ==
    /\ apiResult.kind = "return"
    /\ \E p \in Positions, q \in Positions :
           /\ ImageAt(response[1], p[1], p[2])
           /\ ImageAt(response[1], q[1], q[2])
           /\ InlineDataAt(response[1], p) # InlineDataAt(response[1], q)

\* C3: every response ends in exactly one of Success, Blocked,
\* StoppedAbnormally, NoImageReturned; a value is returned exactly when there
\* is no block reason and some inline image part exists, an error is thrown
\* otherwise; the three failure templates differ.
C3_TotalExclusive ==
    apiResult # Pending =>
        /\ apiResult.kind \in {"return", "throw"}
        /\ apiResult.kind = "return" <=>
               (BlockReasonOf(response[1]) = None /\ HasImage(response[1]))
        /\ Cardinality({c \in {"Success", "Blocked", "Abnormal", "NoImage"} :
               \/ c = "Success" /\ IsSuccess(apiResult)
               \/ c = "Blocked" /\ IsBlocked(apiResult)
               \/ c = "Abnormal" /\ IsAbnormalStop(apiResult)
               \/ c = "NoImage" /\ IsNoImageReturned(apiResult)}) = 1
        /\ Cardinality({BlockedPrefix, AbnormalPrefix, NoImagePrefix}) = 3

\* A response with no candidates at all was classified as NoImageReturned.
C3_Witness ==
    /\ response # None
    /\ response[1].candidates = None
    /\ IsNoImageReturned(apiResult)

\* C4: with no block reason and no inline image part, a first candidate
\* whose finish reason is present and not "STOP" makes the call fail as
\* AbnormalStop carrying that reason; the finish reasons of later candidates
\* are not consulted.
C4_AbnormalStop ==
    (apiResult # Pending /\ BlockReasonOf(response[1]) = None
                         /\ ~HasImage(response[1])) =>
        LET fr == FinishReasonOfFirst(response[1]) IN
        IF fr # None /\ fr[1] # <<"STOP">>
        THEN apiResult = Throw(<<AbnormalPrefix>> \o fr[1] \o <<AbnormalSuffix>>)
        ELSE ~IsAbnormalStop(apiResult)

\* A first candidate that finished with SAFETY, followed by one that
\* finished with STOP, was classified as AbnormalStop("SAFETY").
C4_Witness ==
    /\ response # None
    /\ response[1].candidates # None
    /\ Len(response[1].candidates[1]) = 2
    /\ response[1].candidates[1][1].finishReason = Some(<<"SAFETY">>)
    /\ response[1].candidates[1][2].finishReason = Some(<<"STOP">>)
    /\ apiResult =
          Throw(<<AbnormalPrefix, "SAFETY", AbnormalSuffix>>)

\* t is s without its leading and trailing white space.
IsTrimOf(t, s) ==
    \E a \in 1..(Len(s) + 1), b \in 0..Len(s) :
        /\ t = SubSeq(s, a, b)
        /\ \A k \in 1..Len(s) : (k < a \/ k > b) => s[k] \in WhiteSpace
        /\ t # <<>> => (t[1] \notin WhiteSpace /\ t[Len(t)] \notin WhiteSpace)

\* C5: with no block reason, no inline image part and a first-candidate
\* finish reason that is absent or "STOP", the call fails as NoImageReturned,
\* carrying the trimmed aggregate text when that is non-empty and the generic
\* explanation when the text is absent or white space only.
C5_NoImageReturned ==
    (apiResult # Pending /\ BlockReasonOf(response[1]) = None
                         /\ ~HasImage(response[1])
                         /\ FinishReasonOfFirst(response[1])
                                \in {None, Some(<<"STOP">>)}) =>
        LET text == response[1].text IN
        IF text # None /\ ~IsTrimOf(<<>>, text[1])
        THEN \E t \in {SubSeq(text[1], a, b) : a \in 1..Len(text[1]),
                                                b \in 1..Len(text[1])} :
                /\ IsTrimOf(t, text[1])
                /\ apiResult = Throw(<<NoImagePrefix, NoImageTextPrefix, "\"">>
                                     \o t \o <<"\"">>)
        ELSE apiResult = Throw(<<NoImagePrefix, NoImageGeneric>>)

\* A text with white space around and inside it was reported trimmed.
C5_Witness ==
    /\ response # None
    /\ response[1].text = Some(<<" ", "so", " ", "rry", "\n">>)
    /\ apiResult = Throw(<<NoImagePrefix, NoImageTextPrefix, "\"",
                           "so", " ", "rry", "\"">>)

----------------------------------------------------------------------------
(* Specification SpecErr: the error message normalizer *)

JsonString(text) == [t |-> "string", v |-> text]
JsonObject(members) == [t |-> "object", members |-> members]
JsonNull == [t |-> "literal", name |-> "null"]
JsonOne == [t |-> "number", digit |-> "1"]

\* JSON.stringify-like rendering of a value, sp being the white space put
\* around the structural characters.
RECURSIVE Render(_, _)
RECURSIVE RenderMembers(_, _)
RenderMembers(members, sp) ==
    IF members = <<>> THEN <<>>
    ELSE <<"\"">> \o members[1][1] \o <<"\"">> \o sp \o <<":">> \o sp
         \o Render(members[1][2], sp)
         \o (IF Len(members) = 1 THEN <<>>
             ELSE <<",">> \o sp \o RenderMembers(Tail(members), sp))

Render(value, sp) ==
    IF value.t = "string" THEN <<"\"">> \o value.v \o <<"\"">>
    ELSE IF value.t = "object"
    THEN <<"{">> \o sp \o RenderMembers(value.members, sp) \o sp \o <<"}">>
    ELSE IF value.t = "number" THEN <<value.digit>>
    ELSE <<value.name>>

MimeAlphabet == {"image/bmp", "image/x-foo", ":", " "}
MimeTexts == StringsUpTo(MimeAlphabet, MaxMimeLen)

\* Messages "Unsupported MIME type: <T>", the bare marker, and messages
\* without the marker.
MarkedMessages ==
    {<<MimeMarker, ":", " ">> \o t : t \in MimeTexts} \cup {<<MimeMarker>>}
UnmarkedMessages == {<<>>, <<"Quota exceeded">>, <<"a", ":", " ", "b">>}
Messages == MarkedMessages \cup UnmarkedMessages

\* JSON values that carry the message m somewhere.
JsonValuesWith(m) ==
    { JsonObject(<< <<<<"error">>, JsonObject(<< <<<<"message">>, JsonString(m)>> >>)>> >>),
      JsonObject(<< <<<<"error">>,
                     JsonObject(<< <<<<"code">>, JsonOne>>,
                                   <<<<"message">>, JsonString(m)>> >>)>> >>),
      JsonObject(<< <<<<"error">>,
                     JsonObject(<< <<<<"message">>, JsonString(<<"a">>)>>,
                                   <<<<"message">>, JsonString(m)>> >>)>> >>),
      JsonObject(<< <<<<"error">>,
                     JsonObject(<< <<<<"message">>, JsonString(m)>>,
                                   <<<<"message">>, JsonString(<<"a">>)>> >>)>> >>),
      JsonObject(<< <<<<"error">>,
                     JsonObject(<< <<<<"message">>, JsonNull>>,
                                   <<<<"status">>, JsonString(m)>> >>)>> >>),
      JsonObject(<< <<<<"error">>, JsonString(m)>> >>),
      JsonObject(<< <<<<"error">>, JsonNull>>, <<<<"detail">>, JsonString(m)>> >>),
      JsonObject(<< <<<<"message">>, JsonString(m)>> >>),
      JsonString(m) }

\* Texts that are almost JSON: a closing brace missing, text after the
\* value, text before it.
BrokenJsonWith(m) ==
    LET text == Render(JsonObject(<< <<<<"error">>,
                          JsonObject(<< <<<<"message">>, JsonString(m)>> >>)>> >>),
                       <<>>)
    IN { SubSeq(text, 1, Len(text) - 1), text \o <<"}">>, <<"a", " ">> \o text }

RawTexts ==
    Messages
    \cup UNION {{Render(v, sp) : v \in JsonValuesWith(m), sp \in {<<>>, <<" ">>}} :
                m \in Messages}
    \cup UNION {BrokenJsonWith(m) : m \in Messages}

\* The raw errors: an Error, a string, and values that are neither.
Errors ==
    {[type |-> "Error", message |-> m] : m \in RawTexts}
    \cup {[type |-> "string", value |-> m] : m \in RawTexts}
    \cup { [type |-> "undefined"], [type |-> "null"], [type |-> "object"],
           [type |-> "number", text |-> "0", truthy |-> FALSE],
           [type |-> "number", text |-> "5", truthy |-> TRUE],
           [type |-> "boolean", text |-> "false", truthy |-> FALSE],
           [type |-> "boolean", text |-> "true", truthy |-> TRUE] }

Contexts == {<<"Échec de la création du modèle">>, <<"Échec de l'essayage">>}

InitErr ==
    /\ error \in {Some(e) : e \in Errors}
    /\ context \in Contexts
    /\ friendly = Pending
    /\ UrlIdle
    /\ ApiIdle
    /\ UiIdle

GetFriendlyErrorMessage ==
    /\ friendly = Pending
    /\ friendly' = Return(getFriendlyErrorMessage(error[1], context))
    /\ UNCHANGED <<error, context, urlVars, apiVars, uiVars>>

NextErr == GetFriendlyErrorMessage

SpecErr == InitErr /\ [][NextErr]_vars

----------------------------------------------------------------------------
(* Claims about the error message normalizer (checked under SpecErr) *)

\* The raw error is an Error with this message, or this string.
CarriesText(err, text) ==
    \/ err.type = "Error" /\ err.message = text
    \/ err.type = "string" /\ err.value = text

\* C8 as stated: a raw message that is exactly
\* "Unsupported MIME type: image/x-foo" gives a message that contains
\* image/x-foo.
C8_PlainNamesType ==
    (/\ friendly # Pending
     /\ CarriesText(error[1], <<MimeMarker, ":", " ", "image/x-foo">>)) =>
        Includes(friendly.value, "image/x-foo")

\* C8 amended: a raw message "Unsupported MIME type: <T>" that is not JSON
\* (T = image/x-foo among others) gives the generic unsupported-format
\* message, which names neither the type nor the context.
C8_PlainGeneric ==
    \A t \in MimeTexts :
        (/\ friendly # Pending
         /\ CarriesText(error[1], <<MimeMarker, ":", " ">> \o t)) =>
            /\ friendly = Return(GenericUnsupported)
            /\ ~Includes(friendly.value, "image/x-foo")

\* The plain message "Unsupported MIME type: image/x-foo" was normalized.
C8_Witness ==
    /\ error # None
    /\ CarriesText(error[1], <<MimeMarker, ":", " ", "image/x-foo">>)
    /\ friendly = Return(GenericUnsupported)

\* seg is the text of t before its first ": " (all of t when it has none).
IsBeforeColonSpace(seg, t) ==
    \E k \in 0..Len(t) :
        /\ seg = SubSeq(t, 1, k)
        /\ \A i \in 1..(k - 1) : ~(t[i] = ":" /\ t[i + 1] = " ")
        /\ k = Len(t) \/ (k + 2 <= Len(t) /\ t[k + 1] = ":" /\ t[k + 2] = " ")

ErrorJsonText(t) ==
    <<"{", "\"", "error", "\"", ":", "{", "\"", "message", "\"", ":",
      "\"", MimeMarker, ":", " ">> \o t \o <<"\"", "}", "}">>

\* C9: a raw message {"error":{"message":"Unsupported MIME type: <T>"}}
\* gives the localized message embedding the second segment of the nested
\* message split on ": ", which is <T> itself for a type without ": " (the
\* literal 'unsupported' stands in for an empty segment).
C9_JsonNamesType ==
    \A t \in MimeTexts :
        (friendly # Pending /\ CarriesText(error[1], ErrorJsonText(t))) =>
            \E seg \in {SubSeq(t, 1, k) : k \in 0..Len(t)} :
                /\ IsBeforeColonSpace(seg, t)
                /\ \/ seg # <<>> /\ friendly = Return(<<FileTypePrefix>> \o seg
                                                       \o <<FileTypeSuffix>>)
                   \/ seg = <<>> /\ friendly = Return(<<FileTypePrefix, "unsupported",
                                                         FileTypeSuffix>>)
                /\ (t # <<>> /\ \A i \in 1..(Len(t) - 1) :
                                   ~(t[i] = ":" /\ t[i + 1] = " ")) => seg = t

\* The JSON message naming image/bmp was normalized to the message that
\* names image/bmp.
C9_Witness ==
    /\ error # None
    /\ CarriesText(error[1], ErrorJsonText(<<"image/bmp">>))
    /\ friendly = Return(<<FileTypePrefix, "image/bmp", FileTypeSuffix>>)

\* The stringified raw error as section 4.5 step 1 describes it.
StringifiedRaw(err) ==
    CASE err.type = "Error" -> err.message
      [] err.type = "string" -> err.value
      [] err.type \in {"undefined", "null"} -> <<"Une erreur inconnue est survenue.">>
      [] err.type = "object" -> <<"[object Object]">>
      [] OTHER -> IF err.truthy THEN <<err.text>>
                  ELSE <<"Une erreur inconnue est survenue.">>

\* C10: the result is "<context>. <rawMessage>" exactly when the raw message
\* does not contain "Unsupported MIME type"; when it does, one of the two
\* unsupported-format messages is returned, without the context; an absent
\* raw error (null, undefined, a falsy non-string) stands for the raw message
\* "Une erreur inconnue est survenue.".
C10_ContextIffNoMarker ==
    friendly # Pending =>
        LET raw == StringifiedRaw(error[1])
            marked == \E i \in 1..Len(raw) : raw[i] = "Unsupported MIME type"
        IN /\ friendly.kind = "return"
           /\ (friendly.value = context \o <<". ">> \o raw) <=> ~marked
           /\ marked =>
                 /\ \/ friendly.value = GenericUnsupported
                    \/ /\ friendly.value[1] = FileTypePrefix
                       /\ friendly.value[Len(friendly.value)] = FileTypeSuffix
                 /\ \A i \in 1..Len(friendly.value) :
                        friendly.value[i] # context[1]

\* A JSON message with the marker outside error.message got the generic
\* message, and no context.
C10_Witness ==
    /\ error # None
    /\ CarriesText(error[1],
          <<"{", "\"", "error", "\"", ":", "\"", MimeMarker, ":", " ",
            "image/bmp", "\"", "}">>)
    /\ friendly = Return(GenericUnsupported)

\* An absent raw error got the context and the fallback literal.
C10_WitnessAbsent ==
    /\ error = Some([type |-> "null"])
    /\ friendly = Return(context \o <<". ", "Une erreur inconnue est survenue.">>)

----------------------------------------------------------------------------
(* geminiService.ts: the generative calls *)

SvcIdle == UrlIdle /\ ApiIdle /\ ErrIdle

\* An asynchronous call that failed: the promise is rejected with a raw value.
Reject(e) == [kind |-> "reject", reason |-> e]

\* new Error(msg).
ErrorOf(msg) == [type |-> "Error", message |-> msg]

\* The event a FileReader hands to its onerror handler.
ProgressEvent == [type |-> "event"]

\* An exception thrown inside an async function rejects its promise.
AsRejection(outcome) ==
    IF outcome.kind = "throw" THEN Reject(ErrorOf(outcome.message))
    ELSE outcome

\* FileReader.readAsDataURL: data:<type>;base64,<content>, with the default
\* type when the file has none.
FileDataUrl(file) ==
    DataUrlOf(IF file.type = <<>> THEN <<"application/octet-stream">>
              ELSE file.type,
              file.content)

\* How a FileReader ends: its load event, or its error event.
ReadOutcomes == {"load", "error"}

\* Lines 8-17.  read is how the FileReader ends.
fileToPart(file, read) ==
    IF read = "error" THEN Reject(ProgressEvent)
    ELSE LET p == dataUrlToParts(FileDataUrl(file)) IN
         IF p.kind = "throw" THEN AsRejection(p)
         ELSE Return([inlineData |-> Some(p.value)])

\* Lines 27-30.
dataUrlToPart(url) ==
    LET p == dataUrlToParts(url) IN
    IF p.kind = "throw" THEN p
    ELSE Return([inlineData |-> Some(p.value)])

\* A response of the service with one PNG image.
ImageResponse ==
    [ promptFeedback |-> None,
      candidates |-> Some(<<[parts |-> Some(<<[inlineData |->
                                Some([mimeType |-> <<"image/png">>,
                                      data |-> <<"AAAA">>])]>>),
                             finishReason |-> Some(<<"STOP">>)]>>),
      text |-> None ]

\* A response of the service that blocks the prompt.
BlockedResponse ==
    [ promptFeedback |-> Some([blockReason |-> Some(<<"SAFETY">>),
                               blockReasonMessage |-> None]),
      candidates |-> None,
      text |-> None ]

\* How ai.models.generateContent ends: a response, or a rejection (here the
\* service's refusal of an image type).
ApiOutcomes ==
    { Return(ImageResponse), Return(BlockedResponse),
      Reject(ErrorOf(<<"{", "\"", "error", "\"", ":", "{", "\"", "message",
                       "\"", ":", "\"", MimeMarker, ":", " ", "image/avif",
                       "\"", "}", "}">>)) }

\* Lines 61-69.  read and api are how the file read and the request end.
generateModelImage(userImage, read, api) ==
    LET userImagePart == fileToPart(userImage, read) IN
    IF userImagePart.kind = "reject" THEN userImagePart
    ELSE IF api.kind = "reject" THEN api
    ELSE AsRejection(handleApiResponse(api.value))

----------------------------------------------------------------------------
(* Specification SpecStart: the StartScreen component (Canvas.tsx 377-607) *)

MaxAttempts == 3     \* most image files handed to handleFileSelect

\* String.prototype.startsWith.
StartsWith(s, prefix) ==
    Len(s) >= Len(prefix) /\ SubSeq(s, 1, Len(prefix)) = prefix

ImageFilePrefix == <<"image/">>
NotAnImageMessage == <<"Veuillez sélectionner un fichier image.">>
ModelCreationContext == <<"Échec de la création du modèle">>

\* The files the user can choose or drop.  The type is "image/" followed by
\* the subtype, or another type.
Files ==
    { [type |-> <<"image/", "png">>, content |-> <<"UUUU">>],
      [type |-> <<"image/", "avif">>, content |-> <<"VVVV">>],
      [type |-> <<"text/", "plain">>, content |-> <<"WWWW">>] }

CallIds == 1..MaxAttempts

\* Line 472: the uploader (file input and drop zone) is rendered.
UploaderShown == userImageUrl = None

\* Lines 556-562 and 565-578: a button bound to reset is rendered.
ResetShown ==
    /\ userImageUrl # None
    /\ \/ startError # None
       \/ generatedModelUrl # None /\ ~isGenerating /\ startError = None

InitStart ==
    /\ userImageUrl = None
    /\ generatedModelUrl = None
    /\ isGenerating = FALSE
    /\ startError = None
    /\ readers = {}
    /\ calls = {}
    /\ attempts = 0
    /\ lastSettled = None
    /\ SvcIdle /\ TryOnIdle /\ ExportIdle /\ RasterIdle /\ CanvasIdle

\* Lines 401-408 and 425, reached from handleFileChange and handleDrop.
HandleFileSelect(file) ==
    /\ UploaderShown
    /\ IF ~StartsWith(file.type, ImageFilePrefix)
       THEN /\ startError' = Some(NotAnImageMessage)
            /\ UNCHANGED <<readers, attempts>>
       ELSE /\ attempts < MaxAttempts
            /\ attempts' = attempts + 1
            /\ readers' = readers \cup {[id |-> attempts + 1, file |-> file]}
            /\ UNCHANGED startError
    /\ UNCHANGED <<userImageUrl, generatedModelUrl, isGenerating, calls,
                   lastSettled, notStartVars>>

\* Lines 408-415: reader.onload up to the call of generateModelImage.
ReaderLoad(r) ==
    /\ r \in readers
    /\ readers' = readers \ {r}
    /\ userImageUrl' = Some(FileDataUrl(r.file))
    /\ isGenerating' = TRUE
    /\ generatedModelUrl' = None
    /\ startError' = None
    /\ calls' = calls \cup {r}
    /\ UNCHANGED <<attempts, lastSettled, notStartVars>>

\* The reader fails: no onerror handler is installed.
ReaderError(r) ==
    /\ r \in readers
    /\ readers' = readers \ {r}
    /\ UNCHANGED <<userImageUrl, generatedModelUrl, isGenerating, startError,
                   calls, attempts, lastSettled, notStartVars>>

\* A plausible slip: the indicator is cleared on success only.
CallSettle_NoFinally(c, read, api) ==
    LET outcome == generateModelImage(c.file, read, api) IN
    /\ c \in calls
    /\ calls' = calls \ {c}
    /\ lastSettled' = Some([id |-> c.id, outcome |-> outcome])
    /\ IF outcome.kind = "return"
       THEN /\ generatedModelUrl' = Some(outcome.value)
            /\ isGenerating' = FALSE
            /\ UNCHANGED <<startError, userImageUrl>>
       ELSE /\ startError' = Some(getFriendlyErrorMessage(outcome.reason,
                                                          ModelCreationContext))
            /\ userImageUrl' = None
            /\ UNCHANGED <<generatedModelUrl, isGenerating>>
    /\ UNCHANGED <<readers, attempts, notStartVars>>

\* Lines 415-424: generateModelImage settles; try, catch and finally.
CallSettle(c, read, api) ==
    LET outcome == generateModelImage(c.file, read, api) IN
    /\ c \in calls
    /\ calls' = calls \ {c}
    /\ lastSettled' = Some([id |-> c.id, outcome |-> outcome])
    /\ IF outcome.kind = "return"
       THEN /\ generatedModelUrl' = Some(outcome.value)
            /\ UNCHANGED <<startError, userImageUrl>>
       ELSE /\ startError' = Some(getFriendlyErrorMessage(outcome.reason,
                                                          ModelCreationContext))
            /\ userImageUrl' = None
            /\ UNCHANGED generatedModelUrl
    /\ isGenerating' = FALSE
    /\ UNCHANGED <<readers, attempts, notStartVars>>

\* Lines 457-462.
Reset ==
    /\ ResetShown
    /\ userImageUrl' = None
    /\ generatedModelUrl' = None
    /\ isGenerating' = FALSE
    /\ startError' = None
    /\ UNCHANGED <<readers, calls, attempts, lastSettled, notStartVars>>

SettleCall(id) ==
    \E c \in calls, read \in ReadOutcomes, api \in ApiOutcomes :
        c.id = id /\ CallSettle(c, read, api)

NextStart ==
    \/ \E file \in Files : HandleFileSelect(file)
    \/ \E r \in readers : ReaderLoad(r)
    \/ \E r \in readers : ReaderError(r)
    \/ \E id \in CallIds : SettleCall(id)
    \/ Reset

SpecStart == InitStart /\ [][NextStart]_vars

\* The promise of a started call settles: the file read ends with one of its
\* two events and the request ends with a response or a rejection.
FairSpecStart == SpecStart /\ \A id \in CallIds : WF_vars(SettleCall(id))

\* C11 (StartScreen): at most one generateModelImage call is unsettled at
\* any time, whatever the files chosen or dropped and whenever the reads
\* and the calls end.
C11_OneModelCallInFlight == Cardinality(calls) <= 1

\* The message the screen must show for a raw failure: the service's refusal
\* of a file type names the type; any other failure follows the context.
C14_ExpectedMessage(reason) ==
    IF reason = ProgressEvent
    THEN <<"Échec de la création du modèle", ". ", "[object ProgressEvent]">>
    ELSE IF \E i \in 1..Len(reason.message) : reason.message[i] = MimeMarker
    THEN <<FileTypePrefix, "image/avif", FileTypeSuffix>>
    ELSE <<"Échec de la création du modèle", ". ">> \o reason.message

\* The state right after call id settled.
C14_SettledState(id) ==
    /\ lastSettled # None /\ lastSettled[1].id = id
    /\ \A c \in calls : c.id # id
    /\ ~isGenerating
    /\ lastSettled[1].outcome.kind = "reject" =>
          /\ startError = Some(C14_ExpectedMessage(lastSettled[1].outcome.reason))
          /\ userImageUrl = None
          /\ UploaderShown

\* C14: every started base-model generation eventually settles, and the
\* step that settles it clears isGenerating; when it settles with a failure
\* that step sets error to the normalized message with the context
\* 'Échec de la création du modèle' and clears userImageUrl, so that the
\* comparison with the generated model is not rendered and the uploader is
\* rendered again; reset restores the initial state.
C14_GenerationSettles ==
    /\ \A id \in CallIds :
          (\E c \in calls : c.id = id) ~> C14_SettledState(id)
    /\ [][lastSettled' # lastSettled =>
             /\ isGenerating' = FALSE
             /\ lastSettled'[1].outcome.kind = "reject" =>
                   /\ startError' =
                         Some(C14_ExpectedMessage(lastSettled'[1].outcome.reason))
                   /\ userImageUrl' = None]_vars
    /\ [][Reset =>
             /\ userImageUrl' = None /\ generatedModelUrl' = None
             /\ isGenerating' = FALSE /\ startError' = None]_vars

\* A generation failed because the service refused the file type: the
\* message names the type, the indicator is off and the uploader is back.
C14_Witness ==
    /\ lastSettled # None
    /\ lastSettled[1].outcome.kind = "reject"
    /\ startError = Some(<<FileTypePrefix, "image/avif", FileTypeSuffix>>)
    /\ ~isGenerating
    /\ userImageUrl = None

----------------------------------------------------------------------------
(* Specification SpecTryOn: generateVirtualTryOnImage (geminiService.ts    *)
(* 71-87), one line of the function per step                               *)

ModelName == <<"gemini-2.5-flash-image">>
TryOnPrompt == <<"Vous êtes une IA experte en essayage virtuel.">>

\* The model images handed in: arbitrary short strings, and data URLs with
\* and without a type.
ModelImageUrls ==
    StringsUpTo(UrlAlphabet, MaxFieldLen)
    \cup { DataUrlOf(<<"image/png">>, <<"MMMM">>),
           DataUrlOf(<<"image/jpeg">>, <<"NNNN">>),
           DataUrlOf(<<>>, <<"MMMM">>) }

\* The garment files: images of several types, and a file without a type.
GarmentFiles ==
    { [type |-> <<"image/", "png">>, content |-> <<"GGGG">>],
      [type |-> <<"image/", "webp">>, content |-> <<"HHHH">>],
      [type |-> <<>>, content |-> <<"IIII">>] }

\* How the request ends: one of the responses handleApiResponse classifies,
\* or a rejection.
TryOnApiOutcomes ==
    ApiOutcomes
    \cup { Return([promptFeedback |-> None, candidates |-> None,
                   text |-> Some(<<"sorry">>)]),
           Return([promptFeedback |-> None,
                   candidates |-> Some(<<[parts |-> None,
                                          finishReason |-> Some(<<"SAFETY">>)]>>),
                   text |-> None]) }

\* A plausible slip: the garment is put before the model image.
TryOnParts_GarmentFirst(modelPart, garmentPart) ==
    <<garmentPart, modelPart, [text |-> TryOnPrompt]>>

\* Line 84: the parts of the request.
TryOnParts(modelPart, garmentPart) ==
    <<modelPart, garmentPart, [text |-> TryOnPrompt]>>

InitTryOn ==
    /\ modelImageUrl \in ModelImageUrls
    /\ garmentImage \in {Some(f) : f \in GarmentFiles}
    /\ modelImagePart = None
    /\ garmentImagePart = None
    /\ requests = <<>>
    /\ tryOnResult = Pending
    /\ tryOnPc = "decode"
    /\ SvcIdle /\ StartIdle /\ ExportIdle /\ RasterIdle /\ CanvasIdle

\* Line 72: the model image is decoded; an exception rejects the promise.
DecodeModelImage ==
    /\ tryOnPc = "decode"
    /\ LET part == dataUrlToPart(modelImageUrl) IN
       IF part.kind = "throw"
       THEN /\ tryOnResult' = AsRejection(part)
            /\ tryOnPc' = "done"
            /\ UNCHANGED modelImagePart
       ELSE /\ modelImagePart' = Some(part.value)
            /\ tryOnPc' = "read"
            /\ UNCHANGED tryOnResult
    /\ UNCHANGED <<modelImageUrl, garmentImage, garmentImagePart, requests,
                   notTryOnVars>>

\* Lines 73-85: fileToPart settles; when it resolved, the request is issued.
EncodeGarment(read) ==
    /\ tryOnPc = "read"
    /\ LET part == fileToPart(garmentImage[1], read) IN
       IF part.kind = "reject"
       THEN /\ tryOnResult' = part
            /\ tryOnPc' = "done"
            /\ UNCHANGED <<garmentImagePart, requests>>
       ELSE /\ garmentImagePart' = Some(part.value)
            /\ requests' = Append(requests,
                  [model |-> ModelName,
                   parts |-> TryOnParts(modelImagePart[1], part.value)])
            /\ tryOnPc' = "request"
            /\ UNCHANGED tryOnResult
    /\ UNCHANGED <<modelImageUrl, garmentImage, modelImagePart, notTryOnVars>>

\* Lines 82-86: the request settles and the response is classified.
RequestSettles(api) ==
    /\ tryOnPc = "request"
    /\ tryOnResult' = IF api.kind = "reject" THEN api
                      ELSE AsRejection(handleApiResponse(api.value))
    /\ tryOnPc' = "done"
    /\ UNCHANGED <<modelImageUrl, garmentImage, modelImagePart,
                   garmentImagePart, requests, notTryOnVars>>

NextTryOn ==
    \/ DecodeModelImage
    \/ \E read \in ReadOutcomes : EncodeGarment(read)
    \/ \E api \in TryOnApiOutcomes : RequestSettles(api)

SpecTryOn == InitTryOn /\ [][NextTryOn]_vars

\* The model image cannot be decoded: it has no comma, or no type between
\* the first ':' and the first ';' after it.
C12_ModelUndecodable ==
    \/ \A i \in 1..Len(modelImageUrl) : modelImageUrl[i] # ","
    \/ ~\E i, j \in 1..Len(modelImageUrl) :
           /\ i + 1 < j
           /\ modelImageUrl[i] = ":" /\ modelImageUrl[j] = ";"
           /\ \A k \in 1..j : modelImageUrl[k] \notin {",", "\n"}

\* C12: applying a garment issues at most one request, and none before both
\* images are encoded; the request's parts are the model image, the garment
\* image and the instruction text, in this order; once the call is over,
\* exactly one request was issued when both images were encoded, and none
\* when the model image could not be decoded or the garment could not be
\* read, the call then failing with that error.
C12_OneRequestAfterEncoding ==
    /\ Len(requests) <= 1
    /\ requests # <<>> =>
          /\ modelImagePart # None /\ garmentImagePart # None
          /\ Len(requests[1].parts) = 3
          /\ requests[1].parts[1] = modelImagePart[1]
          /\ requests[1].parts[2] = garmentImagePart[1]
          /\ requests[1].parts[3] = [text |-> TryOnPrompt]
          /\ modelImagePart[1].inlineData[1].data
                = SplitChar(modelImageUrl, ",")[2]
          /\ garmentImagePart[1].inlineData[1].data = garmentImage[1].content
    /\ C12_ModelUndecodable =>
          /\ requests = <<>>
          /\ tryOnPc = "done" =>
                /\ tryOnResult.kind = "reject"
                /\ tryOnResult.reason.type = "Error"
                /\ tryOnResult.reason.message
                      \in {InvalidDataUrl, CouldNotParseMime}
    /\ tryOnPc = "done" =>
          IF modelImagePart # None /\ garmentImagePart # None
          THEN Len(requests) = 1
          ELSE /\ requests = <<>>
               /\ tryOnResult.kind = "reject"
               /\ modelImagePart # None => tryOnResult.reason = ProgressEvent

\* The garment was applied: one request went out and an image came back.
C12_Witness ==
    /\ tryOnPc = "done"
    /\ Len(requests) = 1
    /\ tryOnResult = Return(DataUrlOf(<<"image/png">>, <<"AAAA">>))

\* The garment file could not be read: no request, and the read error.
C12_WitnessReadFailed ==
    /\ tryOnPc = "done"
    /\ modelImagePart # None
    /\ requests = <<>>
    /\ tryOnResult = Reject(ProgressEvent)

----------------------------------------------------------------------------
(* Specification SpecExport: Canvas, download and share (Canvas.tsx        *)
(* 101-153)                                                                *)

MaxExports == 3      \* most clicks on the download and share buttons

\* The images the canvas can display, as data URLs: what the service
\* returned (a PNG with transparency, a JPEG) and a crop (a JPEG).
DisplayImages ==
    { [mime |-> "image/png", picture |-> "look", alpha |-> TRUE],
      [mime |-> "image/jpeg", picture |-> "look", alpha |-> FALSE],
      [mime |-> "image/jpeg", picture |-> "crop", alpha |-> FALSE] }

\* navigator.share is missing; it is there but files cannot be shared
\* (navigator.canShare is missing or answers false); files can be shared.
ShareSupports == {"none", "noFiles", "files"}

FileName == "mon-look.jpg"

\* Lines 106-118: a canvas of the image's size, filled with white, the image
\* drawn on top, encoded as image/jpeg at quality 0.9, saved as mon-look.jpg.
Canonical(image) ==
    [ name |-> FileName, type |-> "image/jpeg",
      encoding |-> "image/jpeg", quality |-> "0.9",
      background |-> "#FFFFFF", picture |-> image.picture,
      alpha |-> FALSE ]

\* Lines 132-135: the fetched bytes of the image, as they are, in a File
\* named mon-look.jpg and typed image/jpeg.
SharedFile(image) ==
    [ name |-> FileName, type |-> "image/jpeg",
      encoding |-> image.mime, quality |-> "source",
      background |-> "none", picture |-> image.picture,
      alpha |-> image.alpha ]

\* Lines 102 and 129: the handlers act only when an image is displayed
\* (line 184: their buttons are rendered only then).
ExportButtonsShown == imageToDisplay # None

InitExport ==
    /\ imageToDisplay \in {None} \cup {Some(i) : i \in DisplayImages}
    /\ shareSupport \in ShareSupports
    /\ downloads = {}
    /\ shares = {}
    /\ handed = {}
    /\ exports = 0
    /\ SvcIdle /\ StartIdle /\ TryOnIdle /\ RasterIdle /\ CanvasIdle

\* The parent or a crop changes the displayed image.
DisplayChanges(image) ==
    /\ imageToDisplay' = image
    /\ imageToDisplay' # imageToDisplay
    /\ UNCHANGED <<shareSupport, downloads, shares, handed, exports,
                   notExportVars>>

\* Lines 101-104 and 125: handleDownload up to image.src = imageToDisplay.
HandleDownload ==
    /\ ExportButtonsShown
    /\ exports < MaxExports
    /\ exports' = exports + 1
    /\ downloads' = downloads \cup {imageToDisplay[1]}
    /\ UNCHANGED <<imageToDisplay, shareSupport, shares, handed,
                   notExportVars>>

\* Lines 105-124: image.onload.  ctx tells whether getContext('2d') gave a
\* context.
DownloadImageLoads(image, ctx) ==
    /\ image \in downloads
    /\ downloads' = downloads \ {image}
    /\ handed' = IF ctx
                 THEN handed \cup {[via |-> "download", source |-> image,
                                    artifact |-> Canonical(image)]}
                 ELSE handed
    /\ UNCHANGED <<imageToDisplay, shareSupport, shares, exports,
                   notExportVars>>

\* Lines 128-131: handleShare up to fetch(imageToDisplay).
HandleShare ==
    /\ ExportButtonsShown
    /\ shareSupport # "none"
    /\ exports < MaxExports
    /\ exports' = exports + 1
    /\ shares' = shares \cup {[image |-> imageToDisplay[1], at |-> "fetch"]}
    /\ UNCHANGED <<imageToDisplay, shareSupport, downloads, handed,
                   notExportVars>>

\* Lines 132-145 and 146-151: the fetch and the blob settle.  When they
\* succeeded and files can be shared, navigator.share is called with the
\* file; otherwise handleDownload runs for the same image.
ShareFetched(s, fetched) ==
    /\ s \in shares /\ s.at = "fetch"
    /\ IF fetched /\ shareSupport = "files"
       THEN /\ shares' = (shares \ {s}) \cup {[image |-> s.image,
                                                at |-> "share"]}
            /\ UNCHANGED downloads
       ELSE /\ shares' = shares \ {s}
            /\ downloads' = downloads \cup {s.image}
    /\ UNCHANGED <<imageToDisplay, shareSupport, handed, exports,
                   notExportVars>>

\* How navigator.share settles: the file was shared, the user dismissed the
\* sheet, or the browser refused.
ShareOutcomes == {"shared", "AbortError", "NotAllowedError"}

\* Lines 137-141 and 146-151: navigator.share settles.
ShareSettles(s, outcome) ==
    /\ s \in shares /\ s.at = "share"
    /\ shares' = shares \ {s}
    /\ handed' = IF outcome = "shared"
                 THEN handed \cup {[via |-> "share", source |-> s.image,
                                    artifact |-> SharedFile(s.image)]}
                 ELSE handed
    /\ downloads' = IF outcome \notin {"shared", "AbortError"}
                    THEN downloads \cup {s.image}
                    ELSE downloads
    /\ UNCHANGED <<imageToDisplay, shareSupport, exports, notExportVars>>

NextExport ==
    \/ \E image \in {None} \cup {Some(i) : i \in DisplayImages} :
          DisplayChanges(image)
    \/ HandleDownload
    \/ \E image \in downloads, ctx \in BOOLEAN : DownloadImageLoads(image, ctx)
    \/ HandleShare
    \/ \E s \in shares, fetched \in BOOLEAN : ShareFetched(s, fetched)
    \/ \E s \in shares, outcome \in ShareOutcomes : ShareSettles(s, outcome)

SpecExport == InitExport /\ [][NextExport]_vars

\* C13: every artifact handed to the user, by download or by share, is the
\* displayed image drawn on a white opaque background and encoded as
\* image/jpeg at quality 0.9, so the downloaded and the shared artifact of
\* one displayed image are identical.
C13_ExportsCanonical ==
    /\ \A h \in handed :
          /\ h.artifact.encoding = "image/jpeg"
          /\ h.artifact.quality = "0.9"
          /\ h.artifact.background = "#FFFFFF"
          /\ ~h.artifact.alpha
          /\ h.artifact.picture = h.source.picture
    /\ \A h1, h2 \in handed :
          h1.source = h2.source => h1.artifact = h2.artifact

----------------------------------------------------------------------------
(* Specification SpecPose: Canvas, pose navigation (Canvas.tsx 73-99 and   *)
(* 295-370)                                                                *)

MaxPoses == 3        \* longest list of poses

PoseNames ==
    {<<"Vue de face">>, <<"Vue de trois-quarts">>, <<"Vue de profil">>,
     <<"Pose en marchant">>}

\* A selection that is not in the list: a free text.
FreeTextPose == <<"assis sur une chaise">>

\* What the user types in the pose menu.
CustomPoseTexts ==
    {<<>>, <<" ">>, FreeTextPose, <<" ">> \o FreeTextPose \o <<" ", "\n">>}

\* The lists of poses: not empty, no pose twice (the poses are the React
\* keys of the menu entries, line 314).
PoseLists ==
    {l \in UNION {[1..n -> PoseNames] : n \in 1..MaxPoses} :
        \A i, j \in 1..Len(l) : l[i] = l[j] => i = j}

\* Array.prototype.indexOf: the first position (from 0) of x, or -1.
RECURSIVE IndexOfFrom(_, _, _)
IndexOfFrom(list, x, k) ==
    IF k >= Len(list) THEN -1
    ELSE IF list[k + 1] = x THEN k
    ELSE IndexOfFrom(list, x, k + 1)

IndexOf(list, x) == IndexOfFrom(list, x, 0)

\* list[k] for a position from 0: undefined outside the list.
ElementAt(list, k) ==
    IF k \in 0..(Len(list) - 1) THEN Some(list[k + 1]) ELSE None

\* The remainder operator % of JavaScript: the sign of the dividend.
JsRemainder(a, n) == IF a >= 0 THEN a % n ELSE -((-a) % n)

\* Lines 77-79.
PreviousIndex(currentIndex, length) ==
    IF currentIndex = -1 THEN length - 1
    ELSE JsRemainder(currentIndex - 1 + length, length)

\* A plausible slip: the remainder is left out.
NextIndex_NoWrap(currentIndex, length) ==
    IF currentIndex = -1 THEN 0 ELSE currentIndex + 1

\* Lines 87-89.
NextIndex(currentIndex, length) ==
    IF currentIndex = -1 THEN 0
    ELSE JsRemainder(currentIndex + 1, length)

\* onSelectPose(pose), called by a handler of the canvas.
OnSelectPose(by, pose) ==
    poseCall' = Some([by |-> by, from |-> currentPoseInstruction,
                      pose |-> pose])

InitPose ==
    /\ isLoading \in BOOLEAN
    /\ poseInstructions \in PoseLists
    /\ currentPoseInstruction
          \in {poseInstructions[i] : i \in 1..Len(poseInstructions)}
              \cup {FreeTextPose}
    /\ customPoseInput = <<>>
    /\ isPoseMenuOpen = FALSE
    /\ poseCall = None
    /\ SvcIdle /\ StartIdle /\ TryOnIdle /\ ExportIdle /\ RasterIdle /\ CropIdle

\* Lines 12-21: the parent renders the canvas with other props.
ParentRenders(loading, current) ==
    /\ isLoading' = loading
    /\ currentPoseInstruction' = current
    /\ <<isLoading', currentPoseInstruction'>>
          # <<isLoading, currentPoseInstruction>>
    /\ UNCHANGED <<poseInstructions, customPoseInput, isPoseMenuOpen,
                   poseCall, notPoseVars>>

\* Lines 73-81.
HandlePreviousPose ==
    /\ IF isLoading THEN UNCHANGED poseCall
       ELSE LET currentIndex == IndexOf(poseInstructions, currentPoseInstruction)
                newIndex == PreviousIndex(currentIndex, Len(poseInstructions))
            IN OnSelectPose("previous", ElementAt(poseInstructions, newIndex))
    /\ UNCHANGED <<isLoading, poseInstructions, currentPoseInstruction,
                   customPoseInput, isPoseMenuOpen, notPoseVars>>

\* Lines 83-91.
HandleNextPose ==
    /\ IF isLoading THEN UNCHANGED poseCall
       ELSE LET currentIndex == IndexOf(poseInstructions, currentPoseInstruction)
                newIndex == NextIndex(currentIndex, Len(poseInstructions))
            IN OnSelectPose("next", ElementAt(poseInstructions, newIndex))
    /\ UNCHANGED <<isLoading, poseInstructions, currentPoseInstruction,
                   customPoseInput, isPoseMenuOpen, notPoseVars>>

\* Lines 93-99.
HandleCustomPoseSubmit ==
    /\ IF isLoading \/ Trim(customPoseInput) = <<>>
       THEN UNCHANGED <<poseCall, customPoseInput, isPoseMenuOpen>>
       ELSE /\ OnSelectPose("custom", Some(Trim(customPoseInput)))
            /\ customPoseInput' = <<>>
            /\ isPoseMenuOpen' = FALSE
    /\ UNCHANGED <<isLoading, poseInstructions, currentPoseInstruction,
                   notPoseVars>>

\* Lines 313-321: an entry of the pose menu is clicked; the entry of the
\* current pose is disabled, and all entries are while loading.
SelectFromMenu(pose) ==
    /\ isPoseMenuOpen
    /\ ~isLoading /\ pose # currentPoseInstruction
    /\ OnSelectPose("menu", Some(pose))
    /\ UNCHANGED <<isLoading, poseInstructions, currentPoseInstruction,
                   customPoseInput, isPoseMenuOpen, notPoseVars>>

\* Lines 326-334: the text input of the pose menu changes.
TypeCustomPose(text) ==
    /\ isPoseMenuOpen /\ ~isLoading
    /\ customPoseInput' = text
    /\ customPoseInput' # customPoseInput
    /\ UNCHANGED <<isLoading, poseInstructions, currentPoseInstruction,
                   isPoseMenuOpen, poseCall, notPoseVars>>

\* Lines 298-299: the pointer enters or leaves the pose controls.
HoverPoseControls(open) ==
    /\ ~isLoading
    /\ isPoseMenuOpen' = open
    /\ isPoseMenuOpen' # isPoseMenuOpen
    /\ UNCHANGED <<isLoading, poseInstructions, currentPoseInstruction,
                   customPoseInput, poseCall, notPoseVars>>

NextPose ==
    \/ \E loading \in BOOLEAN,
          current \in {poseInstructions[i] : i \in 1..Len(poseInstructions)}
                      \cup {FreeTextPose} :
          ParentRenders(loading, current)
    \/ HandlePreviousPose
    \/ HandleNextPose
    \/ HandleCustomPoseSubmit
    \/ \E i \in 1..Len(poseInstructions) : SelectFromMenu(poseInstructions[i])
    \/ \E text \in CustomPoseTexts : TypeCustomPose(text)
    \/ \E open \in BOOLEAN : HoverPoseControls(open)

SpecPose == InitPose /\ [][NextPose]_vars

\* C15: over a non-empty list of n poses, when the selection is the entry at
\* index i (from 0), next selects the entry at (i + 1) mod n and previous the
\* entry at (i - 1) mod n; when the selection is a free text that is not in
\* the list, next selects the first entry and previous the last one.
C15_CyclicNavigation ==
    (poseCall # None /\ poseCall[1].by \in {"next", "previous"}) =>
        LET n == Len(poseInstructions)
            at == {i \in 0..(n - 1) : poseInstructions[i + 1] = poseCall[1].from}
        IN /\ \A i \in at :
                 poseCall[1].pose =
                    Some(poseInstructions[
                            (IF poseCall[1].by = "next" THEN (i + 1) % n
                             ELSE (i + n - 1) % n) + 1])
           /\ at = {} =>
                 poseCall[1].pose =
                    Some(poseInstructions[
                            IF poseCall[1].by = "next" THEN 1 ELSE n])

\* From the first of three poses, previous selected the last one.
C15_Witness ==
    /\ Len(poseInstructions) = 3
    /\ poseCall # None
    /\ poseCall[1].by = "previous"
    /\ poseCall[1].from = poseInstructions[1]
    /\ poseCall[1].pose = Some(poseInstructions[3])

\* From a free text, next selected the first pose.
C15_WitnessFreeText ==
    /\ Len(poseInstructions) = 3
    /\ poseCall # None
    /\ poseCall[1].by = "next"
    /\ poseCall[1].from = FreeTextPose
    /\ poseCall[1].pose = Some(poseInstructions[1])

----------------------------------------------------------------------------
(* Specification SpecRaster: getCroppedImgDataUrl (Canvas.tsx 24-54)       *)
(*                                                                         *)
(* Numbers.  A JavaScript number is modelled as an exact fraction          *)
(* [n |-> numerator, d |-> denominator], not reduced; two fractions are    *)
(* the same number when their cross products are equal.  The lengths of a  *)
(* crop region are multiples of 1/CropResolution of a pixel.               *)

MaxNatural == 3      \* largest natural width and height of the image
MaxRendered == 2     \* largest rendered width and height of the image
CropResolution == 2  \* crop lengths are multiples of 1/CropResolution pixel

Fraction(n, d) == [n |-> n, d |-> d]
Times(a, b) == [n |-> a.n * b.n, d |-> a.d * b.d]
SameNumber(a, b) == a.n * b.d = b.n * a.d

\* A plausible slip: the fraction is rounded to the nearest integer.
ToUnsignedLong_Rounded(a) == (2 * a.n + a.d) \div (2 * a.d)

\* The conversion of a non-negative number to the unsigned long of
\* canvas.width and canvas.height (lines 33-34): the fraction is cut off.
ToUnsignedLong(a) == a.n \div a.d

\* The image elements: natural and rendered sizes of at least one pixel.
ImageElements ==
    [ naturalWidth : 1..MaxNatural, naturalHeight : 1..MaxNatural,
      width : 1..MaxRendered, height : 1..MaxRendered ]

\* The crop regions inside an element of rendered size w by h.
CropRegions(w, h) ==
    { [x |-> Fraction(x, CropResolution), y |-> Fraction(y, CropResolution),
       width |-> Fraction(cw, CropResolution),
       height |-> Fraction(ch, CropResolution)] :
         x \in 0..(w * CropResolution), cw \in 0..(w * CropResolution),
         y \in 0..(h * CropResolution), ch \in 0..(h * CropResolution) }

\* A plausible slip: the test of an empty region is left out.
getCroppedImgDataUrl_NoEmptyTest(img, region, ctx) ==
    LET scaleX == Fraction(img.naturalWidth, img.width)
        scaleY == Fraction(img.naturalHeight, img.height)
        canvasWidth == ToUnsignedLong(Times(region.width, scaleX))
        canvasHeight == ToUnsignedLong(Times(region.height, scaleY))
    IN IF ~ctx THEN None
       ELSE Some([ width |-> canvasWidth, height |-> canvasHeight,
                   sx |-> Times(region.x, scaleX),
                   sy |-> Times(region.y, scaleY),
                   sWidth |-> Times(region.width, scaleX),
                   sHeight |-> Times(region.height, scaleY),
                   dx |-> 0, dy |-> 0,
                   dWidth |-> canvasWidth, dHeight |-> canvasHeight,
                   type |-> "image/jpeg", quality |-> "0.9" ])

\* Lines 24-54; region is the argument crop.  ctx tells whether
\* getContext('2d') gave a context.  The
\* result is null (None) or the data URL of the raster, given by what was
\* drawn into it.
getCroppedImgDataUrl(img, region, ctx) ==
    LET scaleX == Fraction(img.naturalWidth, img.width)
        scaleY == Fraction(img.naturalHeight, img.height)
        canvasWidth == ToUnsignedLong(Times(region.width, scaleX))
        canvasHeight == ToUnsignedLong(Times(region.height, scaleY))
    IN IF region.width.n = 0 \/ region.height.n = 0 THEN None
       ELSE IF ~ctx THEN None
       ELSE Some([ width |-> canvasWidth, height |-> canvasHeight,
                   sx |-> Times(region.x, scaleX), sy |-> Times(region.y, scaleY),
                   sWidth |-> Times(region.width, scaleX),
                   sHeight |-> Times(region.height, scaleY),
                   dx |-> 0, dy |-> 0,
                   dWidth |-> canvasWidth, dHeight |-> canvasHeight,
                   type |-> "image/jpeg", quality |-> "0.9" ])

InitRaster ==
    /\ imageElement \in {Some(i) : i \in ImageElements}
    /\ cropRegion \in {Some(c) : c \in CropRegions(imageElement[1].width,
                                                   imageElement[1].height)}
    /\ cropRegion[1].x.n + cropRegion[1].width.n
          <= imageElement[1].width * CropResolution
    /\ cropRegion[1].y.n + cropRegion[1].height.n
          <= imageElement[1].height * CropResolution
    /\ croppedDataUrl = Pending
    /\ SvcIdle /\ StartIdle /\ TryOnIdle /\ ExportIdle /\ CanvasIdle

GetCroppedImgDataUrl(ctx) ==
    /\ croppedDataUrl = Pending
    /\ croppedDataUrl' = Return(getCroppedImgDataUrl(imageElement[1], cropRegion[1],
                                                     ctx))
    /\ UNCHANGED <<imageElement, cropRegion, notRasterVars>>

NextRaster == \E ctx \in BOOLEAN : GetCroppedImgDataUrl(ctx)

SpecRaster == InitRaster /\ [][NextRaster]_vars

\* region.width * scaleX and region.height * scaleY, as fractions.
C16_ScaledWidth ==
    Fraction(cropRegion[1].width.n * imageElement[1].naturalWidth,
             CropResolution * imageElement[1].width)
C16_ScaledHeight ==
    Fraction(cropRegion[1].height.n * imageElement[1].naturalHeight,
             CropResolution * imageElement[1].height)

\* The rectangle copied starts at (region.x * scaleX, region.y * scaleY).
C16_SourceOffset ==
    /\ SameNumber(croppedDataUrl.value[1].sx,
                  Fraction(cropRegion[1].x.n * imageElement[1].naturalWidth,
                           CropResolution * imageElement[1].width))
    /\ SameNumber(croppedDataUrl.value[1].sy,
                  Fraction(cropRegion[1].y.n * imageElement[1].naturalHeight,
                           CropResolution * imageElement[1].height))

C16_Produced == croppedDataUrl # Pending /\ croppedDataUrl.value # None

\* C16 as stated: the raster of a region with non-zero width and height
\* measures round(region.width * scaleX) by round(region.height * scaleY),
\* and the rectangle copied has the offset (region.x * scaleX,
\* region.y * scaleY) and the raster's size, so it is copied unscaled.
C16_RoundedUnscaled ==
    C16_Produced =>
        LET raster == croppedDataUrl.value[1] IN
        /\ raster.width = (2 * C16_ScaledWidth.n + C16_ScaledWidth.d)
                             \div (2 * C16_ScaledWidth.d)
        /\ raster.height = (2 * C16_ScaledHeight.n + C16_ScaledHeight.d)
                              \div (2 * C16_ScaledHeight.d)
        /\ C16_SourceOffset
        /\ SameNumber(raster.sWidth, Fraction(raster.width, 1))
        /\ SameNumber(raster.sHeight, Fraction(raster.height, 1))

\* C16, amended: the raster measures floor(region.width * scaleX) by
\* floor(region.height * scaleY); the rectangle copied has the offset
\* (region.x * scaleX, region.y * scaleY) and the size region.width * scaleX
\* by region.height * scaleY, not rounded, and is drawn over the whole
\* raster, so it is copied unscaled exactly when both products are whole.
C16_FlooredRaster ==
    C16_Produced =>
        LET raster == croppedDataUrl.value[1] IN
        /\ raster.width * C16_ScaledWidth.d <= C16_ScaledWidth.n
        /\ C16_ScaledWidth.n < (raster.width + 1) * C16_ScaledWidth.d
        /\ raster.height * C16_ScaledHeight.d <= C16_ScaledHeight.n
        /\ C16_ScaledHeight.n < (raster.height + 1) * C16_ScaledHeight.d
        /\ C16_SourceOffset
        /\ SameNumber(raster.sWidth, C16_ScaledWidth)
        /\ SameNumber(raster.sHeight, C16_ScaledHeight)
        /\ raster.dx = 0 /\ raster.dy = 0
        /\ raster.dWidth = raster.width /\ raster.dHeight = raster.height
        /\ (SameNumber(raster.sWidth, Fraction(raster.dWidth, 1))
              <=> C16_ScaledWidth.n % C16_ScaledWidth.d = 0)
        /\ (SameNumber(raster.sHeight, Fraction(raster.dHeight, 1))
              <=> C16_ScaledHeight.n % C16_ScaledHeight.d = 0)

\* A region whose scaled width is at least half a pixel above a whole
\* number gave a raster of that whole number of pixels: the width was cut
\* off, not rounded.
C16_Witness ==
    /\ C16_Produced
    /\ 2 * (C16_ScaledWidth.n % C16_ScaledWidth.d) >= C16_ScaledWidth.d
    /\ croppedDataUrl.value[1].width = C16_ScaledWidth.n \div C16_ScaledWidth.d
    /\ croppedDataUrl.value[1].width >= 1

----------------------------------------------------------------------------
(* Specification SpecCrop: Canvas, crop mode (Canvas.tsx 58-71, 155-169,   *)
(* 184-239, 275-290)                                                       *)
(*                                                                         *)
(* The base images are data URLs.  The <img> of the crop view shows the    *)
(* image of its src from the moment it is rendered; its load event, which  *)
(* sets the default region, comes later.                                   *)

\* The base images the parent displays.
BaseImageUrls == {"model", "look"}

\* The <img> that shows a base image: its natural and its rendered size.
ElementOf(url) ==
    IF url = "model"
    THEN [naturalWidth |-> 4, naturalHeight |-> 6, width |-> 2, height |-> 3]
    ELSE [naturalWidth |-> 3, naturalHeight |-> 3, width |-> 2, height |-> 2]

\* Lines 230-238: the default region, the full width and the top 70 % of the
\* height of the rendered image.
AmericanShotCrop(element) ==
    [ x |-> Fraction(0, 1), y |-> Fraction(0, 1),
      width |-> Fraction(element.width, 1),
      height |-> Fraction(7 * element.height, 10) ]

\* The regions the user draws: an empty one (a click without a drag, a
\* vertical or a horizontal line) or a rectangle.
DrawnRegions ==
    { [x |-> Fraction(1, 2), y |-> Fraction(0, 1),
       width |-> Fraction(w, 2), height |-> Fraction(h, 2)] :
          w \in {0, 3}, h \in {0, 3} }

EmptyRegion(region) == region.width.n = 0 \/ region.height.n = 0

InitCrop ==
    /\ displayImageUrl \in {None} \cup {Some(u) : u \in BaseImageUrls}
    /\ isLoading \in BOOLEAN
    /\ isCropping = FALSE
    /\ crop = None
    /\ croppedImageUrl = None
    /\ imgRef = None
    /\ SvcIdle /\ StartIdle /\ TryOnIdle /\ ExportIdle /\ RasterIdle
    /\ PoseIdle

\* A plausible slip: the effect on displayImageUrl is left out.
DisplayImageChanges_NoEffect(url) ==
    /\ displayImageUrl' = url
    /\ displayImageUrl' # displayImageUrl
    /\ isCropping => url # None
    /\ imgRef' = IF isCropping THEN Some([src |-> url[1], loaded |-> FALSE])
                 ELSE None
    /\ UNCHANGED <<croppedImageUrl, crop, isLoading, isCropping, poseVars,
                   notCanvasVars>>

\* Lines 13 and 68-71: the parent renders the canvas with another base
\* image, and the effect on displayImageUrl runs.  In crop mode the <img>
\* gets the new src (line 224, which expects an image).
DisplayImageChanges(url) ==
    /\ displayImageUrl' = url
    /\ displayImageUrl' # displayImageUrl
    /\ isCropping => url # None
    /\ croppedImageUrl' = None
    /\ crop' = None
    /\ imgRef' = IF isCropping THEN Some([src |-> url[1], loaded |-> FALSE])
                 ELSE None
    /\ UNCHANGED <<isLoading, isCropping, poseVars, notCanvasVars>>

\* Line 15: the parent renders the canvas with another isLoading.
LoadingChanges ==
    /\ isLoading' = ~isLoading
    /\ UNCHANGED <<cropVars, poseVars, notCanvasVars>>

\* Lines 184-187: the crop button, rendered when an image is displayed and
\* the canvas is neither loading nor cropping.
StartCrop ==
    /\ displayImageUrl # None /\ ~isLoading /\ ~isCropping
    /\ isCropping' = TRUE
    /\ imgRef' = Some([src |-> displayImageUrl[1], loaded |-> FALSE])
    /\ UNCHANGED <<displayImageUrl, crop, croppedImageUrl, isLoading,
                   poseVars, notCanvasVars>>

\* Lines 228-239: the load event of the <img> of the crop view.
ImageLoads ==
    /\ imgRef # None /\ ~imgRef[1].loaded
    /\ crop' = Some(AmericanShotCrop(ElementOf(imgRef[1].src)))
    /\ imgRef' = Some([src |-> imgRef[1].src, loaded |-> TRUE])
    /\ UNCHANGED <<displayImageUrl, isCropping, croppedImageUrl, isLoading,
                   poseVars, notCanvasVars>>

\* Line 218: the user draws a region.
ChangeCrop(region) ==
    /\ isCropping
    /\ crop' = Some(region)
    /\ crop' # crop
    /\ UNCHANGED <<displayImageUrl, isCropping, croppedImageUrl, imgRef,
                   isLoading, poseVars, notCanvasVars>>

\* Lines 155-164, the handler of the Confirmer button of the crop view (the
\* button is rendered in crop mode and disabled while the region is
\* undefined or empty, line 285; the handler makes its own tests).
HandleConfirmCrop(ctx) ==
    /\ isCropping
    /\ IF crop = None \/ imgRef = None
       THEN UNCHANGED <<croppedImageUrl, isCropping, imgRef>>
       ELSE LET croppedUrl == getCroppedImgDataUrl(ElementOf(imgRef[1].src),
                                                   crop[1], ctx) IN
            /\ croppedImageUrl' =
                  IF croppedUrl # None
                  THEN Some([of |-> imgRef[1].src, raster |-> croppedUrl[1]])
                  ELSE croppedImageUrl
            /\ isCropping' = FALSE
            /\ imgRef' = None
    /\ UNCHANGED <<displayImageUrl, crop, isLoading, poseVars, notCanvasVars>>

\* Lines 166-169.
HandleCancelCrop ==
    /\ isCropping
    /\ isCropping' = FALSE
    /\ crop' = None
    /\ imgRef' = None
    /\ UNCHANGED <<displayImageUrl, croppedImageUrl, isLoading, poseVars,
                   notCanvasVars>>

NextCrop ==
    \/ \E url \in {None} \cup {Some(u) : u \in BaseImageUrls} :
          DisplayImageChanges(url)
    \/ LoadingChanges
    \/ StartCrop
    \/ ImageLoads
    \/ \E region \in DrawnRegions : ChangeCrop(region)
    \/ \E ctx \in BOOLEAN : HandleConfirmCrop(ctx)
    \/ HandleCancelCrop

SpecCrop == InitCrop /\ [][NextCrop]_vars

\* C17: getCroppedImgDataUrl returns null for every region whose width or
\* height is 0, and the confirmation of such a region leaves
\* croppedImageUrl as it was and leaves crop mode.
C17_EmptyRegionNoCrop ==
    /\ [](\A url \in BaseImageUrls, ctx \in BOOLEAN :
            \A region \in DrawnRegions \cup {crop[i] : i \in 1..Len(crop)} :
               EmptyRegion(region) =>
                  getCroppedImgDataUrl(ElementOf(url), region, ctx) = None)
    /\ [][( /\ \E ctx \in BOOLEAN : HandleConfirmCrop(ctx)
            /\ crop # None /\ imgRef # None
            /\ EmptyRegion(crop[1]) )
          => /\ croppedImageUrl' = croppedImageUrl
             /\ isCropping' = FALSE]_vars

\* An empty region was confirmed over an earlier crop: the canvas has left
\* crop mode and still holds the earlier crop.
C17_Witness ==
    /\ ~isCropping
    /\ crop # None /\ EmptyRegion(crop[1])
    /\ croppedImageUrl # None

====
